---- MODULE Spec2Model ----
(***************************************************************************)
(* Model of use-buffered-pagination: the sparse slice buffer               *)
(* (src/src/buffer.ts), the timeout dispatcher (useTimeoutDispatch), the   *)
(* store of query states (usePaginationBufferState) and the controller     *)
(* (useBufferedPagination).                                                *)
(*                                                                         *)
(* An item is a pair <<k, x>>: the item supplied for index x by the k-th   *)
(* insert call.  All items are therefore distinct, and both the origin and *)
(* the position of every resident item can be read back from the buffer.   *)
(***************************************************************************)
EXTENDS Integers, Sequences, FiniteSets, TLC

VARIABLES
    slices,         \* BufferSliceSet.slices: the backing array, in array order
    inserts,        \* history: number of insert() calls made
    last,           \* history: the call made after the inserts, its arguments,
                    \* the backing array it found and its outcome
    hung,           \* TRUE once a buffer call entered a loop that never ends
    now,            \* Date.now()
    dispatchTime,   \* useTimeoutDispatch: dispatchTime.current
    dispatchCount,  \* useTimeoutDispatch: dispatchCount.current
    timers,         \* pending setTimeout callbacks of the dispatcher
    log,            \* history: one record per dispatch() call
    props,          \* the props of the last render: query, count, page,
                    \* pageSize, pageBufferRadius, queryBackstackSize
    states,         \* usePaginationBufferState: the Map of query states
    queryModCount,  \* usePaginationBufferState: queryModCount
    fault,          \* "none", or how a call made by an effect failed
    activated,      \* history: the query keys rendered so far
    inputs,         \* history: number of inputs the hook was given
    given,          \* history: number of inserts into the store, of data
                    \* applied by the controller
    lastInput,      \* history: the last input the hook was given
    pending,        \* useBufferedPagination: pending
    view,           \* useBufferedPagination: the memoized subset
    calls,          \* history: one record per call of fetchRanges
    renders,        \* history: the renders made by the last step
    event           \* history: the last step of the controller

bufVars == <<slices, inserts, last, hung>>
dspVars == <<now, dispatchTime, dispatchCount, timers, log>>
storeVars == <<props, states, queryModCount, fault, activated, inputs, given, lastInput>>
ctlVars == <<pending, view, calls, renders, event>>
vars == <<slices, inserts, last, hung, now, dispatchTime, dispatchCount, timers, log,
          props, states, queryModCount, fault, activated, inputs, given, lastInput,
          pending, view, calls, renders, event>>

----------------------------------------------------------------------------
(* Bounds of the model. *)

MaxInserts == 3     \* insert() calls per behaviour
MaxOffset == 3      \* largest offset of an inserted slice
MaxItems == 4       \* items handed to insert() per behaviour, over all its calls
MaxWinOffset == 1   \* largest offset of a queried window
MaxWinLen == 3      \* largest length of a queried window
MaxDispatches == 3  \* dispatch() calls per behaviour
MaxTicks == 12      \* clock steps per behaviour
TickMs == 100       \* milliseconds per clock step
MaxKeys == 3        \* query keys, numbered from 1
MaxBackstack == 1   \* largest finite queryBackstackSize
MaxRadius == 1      \* largest finite pageBufferRadius
MaxPageSize == 1    \* largest pageSize
MaxPage == 1        \* largest page set
MaxInputs == 3      \* inputs given to a hook per behaviour
MaxStoreInserts == 1 \* slices inserted into the store's buffers per behaviour
MaxFetches == 2     \* calls of fetchRanges per behaviour
MaxCtlInputs == 1   \* inputs given to the controller per behaviour
MaxCount == 1       \* largest count prop
MaxApplies == 2     \* data applied per behaviour, where data is of any shape
MaxRemaining == 1   \* largest remaining count of such data, of either sign
MaxFrames == 1      \* largest value of the host's global named length
MaxSplits == 2      \* offsets given to one trySplit
MaxPadding == 1     \* largest padding a consumer passes to fetch

(* The source behind the fetch collaborator holds the items of the indices *)
(* 0..SourceLen-1: enough for every page that can be set.                  *)
SourceLen == (MaxPage + 2) * MaxPageSize

(* DEFAULT_FETCH_TIMEOUT: the timeout the controller hands the dispatcher. *)
Timeout == 1000

(* Infinity of the source's number type: larger than every index the       *)
(* bounds above can produce, so that sums and differences with it keep     *)
(* comparing as the source's do.                                           *)
Infinity == 1000000

Null == [null |-> TRUE]
Undefined == <<>>
Thrown == [thrown |-> TRUE]     \* outcome of a call that raised an Error

Min(a, b) == IF a < b THEN a ELSE b
Max(a, b) == IF a > b THEN a ELSE b

----------------------------------------------------------------------------
(* Array primitives of the host language. *)

(* Array.prototype.slice(start, end): negative arguments count from the    *)
(* end, both are clamped to the array.                                     *)
RelIndex(len, v) == IF v < 0 THEN Max(len + v, 0) ELSE Min(v, len)

ArraySlice(arr, start, end) ==
    LET s == RelIndex(Len(arr), start)
        e == RelIndex(Len(arr), end)
    IN  IF e <= s THEN <<>> ELSE SubSeq(arr, s + 1, e)

(* Array.prototype.fill(undefined, start, end): overwrites the existing    *)
(* entries start..end-1; it never changes the array's length.              *)
ArrayFillUndefined(arr, start, end) ==
    LET s == RelIndex(Len(arr), start)
        e == RelIndex(Len(arr), end)
    IN  [n \in 1..Len(arr) |-> IF n - 1 >= s /\ n - 1 < e THEN Undefined ELSE arr[n]]

(* Array.prototype.splice(i, 1) with a 1-based position. *)
RemoveAt(arr, p) == SubSeq(arr, 1, p - 1) \o SubSeq(arr, p + 1, Len(arr))

----------------------------------------------------------------------------
(* A check of the offset alone, whatever the length. *)
CheckOffsetOnly(offset, length) == ~(offset < 0)

(* checkOffsetAndLength / checkOffset: TRUE when the check passes, FALSE   *)
(* when it throws.                                                         *)
CheckOffsetAndLength(offset, length) == ~(offset < 0 \/ length < 0)
CheckOffset(offset) == ~(offset < 0)

(* new Range(offset, length) *)
Range(offset, length) == [offset |-> offset, length |-> length]
RangeTerminal(r) == r.offset + r.length

(* BufferSlice *)

BufferSlice(offset, data) == [offset |-> offset, data |-> data]

Length(s) == Len(s.data)
Terminal(s) == s.offset + Length(s)

(* The constructors with their checks: the object, or Thrown. *)
NewRange(offset, length) ==
    IF CheckOffsetAndLength(offset, length) THEN Range(offset, length) ELSE Thrown

NewBufferSlice(offset, data) ==
    IF CheckOffset(offset) THEN BufferSlice(offset, data) ELSE Thrown

(* A join that also refuses two slices that only touch. *)
TryJoinOverlapping(this, slice) ==
    IF Terminal(this) <= slice.offset \/ Terminal(slice) <= this.offset
    THEN [null |-> TRUE]
    ELSE BufferSlice(Min(this.offset, slice.offset),
                     [n \in 1..(Max(Terminal(this), Terminal(slice))
                                - Min(this.offset, slice.offset)) |->
                        LET x == Min(this.offset, slice.offset) + n - 1
                        IN  IF this.offset <= x /\ x < Terminal(this)
                            THEN this.data[x - this.offset + 1]
                            ELSE slice.data[x - slice.offset + 1]])

(* this.tryJoin(slice): this has precedence on collision. *)
TryJoin(this, slice) ==
    LET i == this.offset
        j == Terminal(this)
        ij == this.data
        s == slice.offset
        e == Terminal(slice)
        se == slice.data
        si == ArraySlice(se, 0, Max(0, i - s))
        je == ArraySlice(se, j - s, Len(se))
    IN  IF j < s \/ e < i
        THEN Null
        ELSE BufferSlice(i - Len(si), si \o ij \o je)

(* this.trySlice(offset, length); length may be Infinity. *)
TrySlice(this, offset, length) ==
    LET i == this.offset
        j == Terminal(this)
        ij == this.data
        s == offset
        e == offset + length
        isL == Max(0, s - i)
        ieL == Max(0, e - i)
    IN  IF ~CheckOffsetAndLength(offset, length)
        THEN Thrown
        ELSE IF j <= s \/ e <= i
        THEN Null
        ELSE BufferSlice(i + isL, ArraySlice(ij, isL, ieL))

(* this.trySplit(...offsets): one part per span between consecutive        *)
(* offsets, the first from 0 and the last up to Infinity.                  *)
TrySplit(this, offsets) ==
    IF \E n \in 1..Len(offsets) : ~CheckOffset(offsets[n])
    THEN Thrown
    ELSE IF Len(offsets) = 0
    THEN <<this>>
    ELSE LET i == this.offset
             j == Terminal(this)
         IN  [n \in 1..(Len(offsets) + 1) |->
                LET s == IF n = 1 THEN 0 ELSE offsets[n - 1]
                    e == IF n = Len(offsets) + 1 THEN Infinity ELSE offsets[n]
                IN  IF s <= i /\ j <= e
                    THEN this
                    ELSE TrySlice(this, s, e - s)]

----------------------------------------------------------------------------
(* BufferSliceSet *)

(* Math.min(first, ...rest) and Math.max(first, ...rest) *)
MathMin(first, rest) == CHOOSE m \in {first} \cup rest : \A v \in {first} \cup rest : m <= v
MathMax(first, rest) == CHOOSE m \in {first} \cup rest : \A v \in {first} \cup rest : m >= v

(* get offset() and get terminal() of the buffer *)
BufferOffset(buf) == MathMin(0, {buf[n].offset : n \in 1..Len(buf)})
BufferTerminal(buf) == MathMax(0, {Terminal(buf[n]) : n \in 1..Len(buf)})

(* insert(...slices): appends the slices that hold at least one item. *)
Insert(buf, batch) == buf \o SelectSeq(batch, LAMBDA it : Length(it) # 0)

(* deduplicate(): for every position i, the slice found there when the     *)
(* outer loop arrives (ib) is joined under every later slice that touches  *)
(* or overlaps it; the joined slice replaces position i and the later      *)
(* slice is removed.  ib is read once per i.                               *)
RECURSIVE DeduplicateInner(_, _, _, _)
DeduplicateInner(buf, i, ib, j) ==
    IF j > Len(buf)
    THEN buf
    ELSE LET jb == buf[j]
             ijb == TryJoin(jb, ib)
         IN  IF ijb # Null
             THEN DeduplicateInner(RemoveAt([buf EXCEPT ![i] = ijb], j), i, ib, j)
             ELSE DeduplicateInner(buf, i, ib, j + 1)

RECURSIVE DeduplicateOuter(_, _)
DeduplicateOuter(buf, i) ==
    IF i > Len(buf)
    THEN buf
    ELSE DeduplicateOuter(DeduplicateInner(buf, i, buf[i], i + 1), i + 1)

Deduplicate(buf) == DeduplicateOuter(buf, 1)

(* Array.prototype.sort((a, b) => a.offset - b.offset): stable. *)
RECURSIVE SortByOffset(_)
SortByOffset(arr) ==
    IF Len(arr) <= 1
    THEN arr
    ELSE LET head == SortByOffset(SubSeq(arr, 1, Len(arr) - 1))
             x == arr[Len(arr)]
             k == Cardinality({n \in 1..Len(head) : head[n].offset <= x.offset})
         IN  SubSeq(head, 1, k) \o <<x>> \o SubSeq(head, k + 1, Len(head))

(* The walk of subset() over the sorted in-window slices, from position n, *)
(* with the data and absence collected so far.                             *)
RECURSIVE SubsetWalk(_, _, _, _, _, _)
SubsetWalk(sorted, n, offset, data, absence, absentOffset) ==
    IF n > Len(sorted)
    THEN [thrown |-> FALSE, data |-> data, absence |-> absence,
          absentOffset |-> absentOffset]
    ELSE LET slice == sorted[n]
             absentLength == slice.offset - absentOffset
             filled == IF absentLength # 0
                       THEN ArrayFillUndefined(data, absentOffset - offset, absentLength)
                       ELSE data
         IN  IF absentLength # 0 /\ ~CheckOffsetAndLength(absentOffset, absentLength)
             THEN [thrown |-> TRUE, data |-> filled, absence |-> absence,
                   absentOffset |-> absentOffset]
             ELSE SubsetWalk(sorted, n + 1, offset,
                             filled \o slice.data,
                             IF absentLength # 0
                             THEN Append(absence, Range(absentOffset, absentLength))
                             ELSE absence,
                             Terminal(slice))

(* subset(offset, length) on the backing array buf, which the caller has   *)
(* already deduplicated.  The result is Thrown or the returned subset.     *)
SubsetOf(buf, offset, length) ==
    LET terminal == offset + length
        hits == SelectSeq([n \in 1..Len(buf) |-> TrySlice(buf[n], offset, length)],
                          LAMBDA it : it # Null)
        w == SubsetWalk(SortByOffset(hits), 1, offset, <<>>, <<>>, offset)
        absentLength == terminal - w.absentOffset
        tail == w.absentOffset # terminal
        data == IF tail
                THEN ArrayFillUndefined(w.data, w.absentOffset - offset, absentLength)
                ELSE w.data
        absence == IF tail
                   THEN Append(w.absence, Range(w.absentOffset, absentLength))
                   ELSE w.absence
    IN  IF w.thrown \/ (tail /\ ~CheckOffsetAndLength(w.absentOffset, absentLength))
        THEN Thrown
        ELSE IF Len(absence) # 0
        THEN [sequential |-> FALSE, absence |-> absence, data |-> data]
        ELSE [sequential |-> TRUE, absence |-> <<>>, data |-> data]

(* subset(offset, length): the backing array after the call, and the       *)
(* outcome.                                                                *)
Subset(buf, offset, length) ==
    IF ~CheckOffsetAndLength(offset, length)
    THEN [slices |-> buf, result |-> Thrown]
    ELSE LET d == Deduplicate(buf)
         IN  [slices |-> d, result |-> SubsetOf(d, offset, length)]

(* fragment(offset, length), from position i of the backing array.  A      *)
(* slice holding a part inside the window and a part outside it is removed *)
(* and its parts are pushed to the end of the array, where the loop        *)
(* reaches them later; the loop counter advances by one either way.  When  *)
(* one of the pushed parts is the visited slice itself, every later visit  *)
(* of it pushes it again and the loop never ends: hang.                    *)
RECURSIVE FragmentLoop(_, _, _, _)
FragmentLoop(buf, i, offset, terminal) ==
    IF i > Len(buf)
    THEN [slices |-> buf, hang |-> FALSE]
    ELSE LET buffer == buf[i]
             fragments == TrySplit(buffer, <<offset, terminal>>)
             nonNullFragments == SelectSeq(fragments, LAMBDA it : it # Null)
         IN  IF fragments[2] # Null /\ Len(nonNullFragments) > 1
             THEN IF \E n \in 1..Len(nonNullFragments) : nonNullFragments[n] = buffer
                  THEN [slices |-> RemoveAt(buf, i) \o nonNullFragments, hang |-> TRUE]
                  ELSE FragmentLoop(RemoveAt(buf, i) \o nonNullFragments,
                                    i + 1, offset, terminal)
             ELSE FragmentLoop(buf, i + 1, offset, terminal)

Fragment(buf, offset, length) == FragmentLoop(buf, 1, offset, offset + length)

(* deallocate with the loop counter advanced after a removal as well. *)
RECURSIVE DeallocateLoopSkipping(_, _, _, _)
DeallocateLoopSkipping(buf, i, offset, terminal) ==
    IF i > Len(buf)
    THEN buf
    ELSE IF Terminal(buf[i]) <= offset \/ buf[i].offset >= terminal
    THEN DeallocateLoopSkipping(RemoveAt(buf, i), i + 1, offset, terminal)
    ELSE DeallocateLoopSkipping(buf, i + 1, offset, terminal)

(* deallocate(offset, length), from position i of the backing array. *)
RECURSIVE DeallocateLoop(_, _, _, _)
DeallocateLoop(buf, i, offset, terminal) ==
    IF i > Len(buf)
    THEN buf
    ELSE IF Terminal(buf[i]) <= offset \/ buf[i].offset >= terminal
    THEN DeallocateLoop(RemoveAt(buf, i), i, offset, terminal)
    ELSE DeallocateLoop(buf, i + 1, offset, terminal)

Deallocate(buf, offset, length) == DeallocateLoop(buf, 1, offset, offset + length)

(* optimize(offset, length): the backing array after the call and how the  *)
(* call ended: "ok", "thrown" or "hang".                                   *)
Optimize(buf, offset, length) ==
    IF ~CheckOffsetAndLength(offset, length)
    THEN [slices |-> buf, result |-> "thrown"]
    ELSE LET f == Fragment(Deduplicate(buf), offset, length)
         IN  IF f.hang
             THEN [slices |-> f.slices, result |-> "hang"]
             ELSE [slices |-> Deallocate(f.slices, offset, length), result |-> "ok"]

----------------------------------------------------------------------------
(* Index sets of slices, buffers, windows and ranges. *)

Covers(s, x) == s.offset <= x /\ x < Terminal(s)
Indices(s) == s.offset..(Terminal(s) - 1)
Covered(buf) == UNION {Indices(buf[n]) : n \in 1..Len(buf)}
Window(offset, length) == offset..(offset + length - 1)
RangeIndices(r) == r.offset..(r.offset + r.length - 1)
SliceSet(buf) == {buf[n] : n \in 1..Len(buf)}

----------------------------------------------------------------------------
(* The buffer as a state machine: a client inserts slices, then calls one  *)
(* of subset, optimize and deduplicate on what it inserted.                *)

(* The slice the k-th insert call supplies for [offset, offset+length). *)
NewSlice(k, offset, length) ==
    BufferSlice(offset, [n \in 1..length |-> <<k, offset + n - 1>>])

RECURSIVE ItemCount(_)
ItemCount(buf) == IF Len(buf) = 0 THEN 0 ELSE Length(Head(buf)) + ItemCount(Tail(buf))

NoCall == [op |-> "none", offset |-> 0, length |-> 0, before |-> <<>>, result |-> Null]

BufInit ==
    /\ slices = <<>>
    /\ inserts = 0
    /\ last = NoCall
    /\ hung = FALSE

DoInsert(offset, length) ==
    /\ last.op = "none"
    /\ inserts < MaxInserts
    /\ ItemCount(slices) + length <= MaxItems
    /\ slices' = Insert(slices, <<NewSlice(inserts + 1, offset, length)>>)
    /\ inserts' = inserts + 1
    /\ UNCHANGED <<last, hung>>

DoSubset(offset, length) ==
    LET r == Subset(slices, offset, length)
    IN  /\ last.op = "none"
        /\ slices' = r.slices
        /\ last' = [op |-> "subset", offset |-> offset, length |-> length,
                    before |-> slices, result |-> r.result]
        /\ UNCHANGED <<inserts, hung>>

DoOptimize(offset, length) ==
    LET r == Optimize(slices, offset, length)
    IN  /\ last.op = "none"
        /\ slices' = r.slices
        /\ last' = [op |-> "optimize", offset |-> offset, length |-> length,
                    before |-> slices, result |-> r.result]
        /\ hung' = (r.result = "hang")
        /\ UNCHANGED inserts

DoDeduplicate ==
    /\ last.op = "none"
    /\ slices' = Deduplicate(slices)
    /\ last' = [op |-> "deduplicate", offset |-> 0, length |-> 0,
                before |-> slices, result |-> Null]
    /\ UNCHANGED <<inserts, hung>>

----------------------------------------------------------------------------
(* useTimeoutDispatch *)

(* The clock starts where the first dispatch is not held back by the       *)
(* initial dispatchTime of 0, as with any real Date.now().                 *)
StartTime == Timeout

(* deltaTime < timeout: the dispatch is delayed. *)
IsDelayed(deltaTime, timeout) == deltaTime < timeout

(* A delay of the whole timeout, counted from the delayed call. *)
DelayWhole(timeout, deltaTime) == timeout

(* const delay = timeout - deltaTime *)
Delay(timeout, deltaTime) == timeout - deltaTime

(* A timer that never runs its dispatch. *)
TimerRunsNever(deltaCount) == FALSE

(* A timer that runs its dispatch whatever was dispatched after it. *)
TimerRunsAlways(deltaCount) == TRUE

(* deltaCount == 0: the timer runs its dispatch; otherwise it is ignored. *)
TimerRuns(deltaCount) == deltaCount = 0

DspInit ==
    /\ now = StartTime
    /\ dispatchTime = 0
    /\ dispatchCount = 0
    /\ timers = {}
    /\ log = <<>>

(* Time passes; a timer that is due may still be waiting for its turn. *)
Tick ==
    /\ now < StartTime + MaxTicks * TickMs
    /\ now' = now + TickMs
    /\ UNCHANGED <<dispatchTime, dispatchCount, timers, log>>

(* The callback returned by useTimeoutDispatch, called with a dispatch.    *)
(* The log entry of the call is its position in log.                       *)
Dispatch(timeout) ==
    LET id == Len(log) + 1
        deltaTime == now - dispatchTime
        expectedDispatchCount == dispatchCount + 1
        entry == [at |-> now, lastRun |-> dispatchTime, delayed |-> FALSE, due |-> now,
                  outcome |-> "executed", runs |-> 1, doneAt |-> now,
                  deltaCount |-> 0, after |-> 0]
    IN  /\ Len(log) < MaxDispatches
        /\ IF timeout > 0
           THEN /\ dispatchCount' = expectedDispatchCount
                /\ IF IsDelayed(deltaTime, timeout)
                   THEN /\ timers' = timers \cup
                                {[id |-> id,
                                  expectedDispatchCount |-> expectedDispatchCount,
                                  due |-> now + Delay(timeout, deltaTime)]}
                        /\ log' = Append(log,
                                [entry EXCEPT !.delayed = TRUE,
                                              !.due = now + Delay(timeout, deltaTime),
                                              !.outcome = "pending",
                                              !.runs = 0])
                        /\ UNCHANGED dispatchTime
                   ELSE /\ dispatchTime' = now
                        /\ log' = Append(log, entry)
                        /\ UNCHANGED timers
           ELSE /\ dispatchTime' = now
                /\ log' = Append(log, entry)
                /\ UNCHANGED <<dispatchCount, timers>>
        /\ UNCHANGED now

(* The setTimeout callback of a delayed dispatch, run at or after its due  *)
(* time.                                                                   *)
TimerFires(timer) ==
    LET deltaCount == dispatchCount - timer.expectedDispatchCount
    IN  /\ timer \in timers
        /\ now >= timer.due
        /\ timers' = timers \ {timer}
        /\ IF TimerRuns(deltaCount)
           THEN /\ dispatchTime' = now
                /\ log' = [log EXCEPT ![timer.id].outcome = "executed",
                                      ![timer.id].runs = @ + 1,
                                      ![timer.id].doneAt = now,
                                      ![timer.id].after = Len(log) - timer.id]
           ELSE /\ log' = [log EXCEPT ![timer.id].outcome = "ignored",
                                      ![timer.id].doneAt = now,
                                      ![timer.id].deltaCount = deltaCount,
                                      ![timer.id].after = Len(log) - timer.id]
                /\ UNCHANGED dispatchTime
        /\ UNCHANGED <<now, dispatchCount>>

----------------------------------------------------------------------------
(* usePaginationBufferState: the keyed store of query states. *)

(* The default of the page prop: the page of a query state on creation. *)
InitialPage == 0

(* DEFAULT_QUERY_BACKSTACK_SIZE *)
DefaultBackstack == 1

(* DEFAULT_PAGE_BUFFER_RADIUS *)
DefaultRadius == 1

(* number | null: the known terminal of a query, <<>> while unknown. *)
NoTerminal == <<>>
Known(n) == <<n>>
Coalesce(v, default) == IF v = NoTerminal THEN default ELSE v[1]

(* The state object created for a query on its first render.  born stands  *)
(* for the identity of the object, which the closures of a render hold: it *)
(* is the queryModCount of the render that created it, and a query gets a  *)
(* second state only after an eviction has raised that count.              *)
NewQueryState(modCount, initialPage) ==
    [born |-> modCount,
     sinceQueryModCount |-> modCount,
     direction |-> 0,
     buffer |-> <<>>,
     bufferModCount |-> 0,
     page |-> initialPage,
     terminal |-> NoTerminal]

(* states.get(query), creating and storing the state when there is none. *)
GetOrCreate(sts, q, modCount, initialPage) ==
    IF q \in DOMAIN sts
    THEN sts
    ELSE [k \in DOMAIN sts \cup {q} |->
            IF k = q THEN NewQueryState(modCount, initialPage) ELSE sts[k]]

(* state.setPage(page) *)
SetPageOf(st, page) == [st EXCEPT !.page = page, !.direction = page - st.page]

(* A lag test that lets a state stay one generation longer. *)
LagsByMore(newQueryModCount, value, queryBackstackSize) ==
    newQueryModCount - value.sinceQueryModCount > queryBackstackSize + 1

(* A lag test that is also met by a gap of exactly the backstack size. *)
LagsOrReaches(newQueryModCount, value, queryBackstackSize) ==
    newQueryModCount - value.sinceQueryModCount >= queryBackstackSize

(* newQueryModCount - value.sinceQueryModCount > queryBackstackSize *)
Lags(newQueryModCount, value, queryBackstackSize) ==
    newQueryModCount - value.sinceQueryModCount > queryBackstackSize

(* The backstack effect: the updater handed to setQueryModCount, run for   *)
(* the render of query q.                                                  *)
BackstackScan(sts, q, modCount, queryBackstackSize) ==
    LET newQueryModCount == modCount + 1
        stamped == [sts EXCEPT ![q].sinceQueryModCount = newQueryModCount]
        kept == {k \in DOMAIN stamped :
                    k = q \/ ~Lags(newQueryModCount, stamped[k], queryBackstackSize)}
    IN  [states |-> [k \in kept |-> stamped[k]], queryModCount |-> newQueryModCount]

(* The backstack effect with the default size in place of the configured   *)
(* one.                                                                    *)
BackstackEffectOfDefault(sts, q, modCount, queryBackstackSize) ==
    BackstackScan(sts, q, modCount, DefaultBackstack)

(* The backstack effect of the render of query q. *)
BackstackEffect(sts, q, modCount, queryBackstackSize) ==
    IF queryBackstackSize = Infinity
    THEN [states |-> sts, queryModCount |-> modCount]
    ELSE BackstackScan(sts, q, modCount, queryBackstackSize)

(* The window the window effect computes for the state st. *)
WindowOf(st, pageSize, pageBufferRadius) ==
    LET terminal == Coalesce(st.terminal, Infinity)
        pageOffset == st.page * pageSize
        pageTerminal == Min(pageOffset + pageSize, terminal)
        paddingRadius == pageBufferRadius * pageSize
        paddingBehind == Min(pageOffset, paddingRadius)
        paddingAhead == Min(terminal - pageTerminal, paddingRadius)
    IN  [offset |-> pageOffset - paddingBehind,
         length |-> pageSize + paddingBehind + paddingAhead]

(* The window effect of the render of query q: the states after it and how *)
(* its optimize ended.                                                     *)
OptimizeTo(buf, w) == Optimize(buf, w.offset, w.length)

Optimized(sts, q, r) ==
    [states |-> [sts EXCEPT ![q].buffer = r.slices], result |-> r.result]

WindowEffect(sts, q, pageSize, pageBufferRadius) ==
    IF pageBufferRadius = Infinity
    THEN [states |-> sts, result |-> "ok"]
    ELSE Optimized(sts, q,
                   OptimizeTo(sts[q].buffer, WindowOf(sts[q], pageSize, pageBufferRadius)))

(* The dependencies of the two effects, as a render of the props p finds   *)
(* them in the states sts.                                                 *)
BackstackDeps(p) == <<p.query, p.queryBackstackSize>>
WindowDeps(sts, p) ==
    <<p.query, p.pageBufferRadius, p.pageSize, sts[p.query].bufferModCount>>

(* One render of usePaginationBufferState with the props p, and the        *)
(* effects it commits.  prev holds the dependencies the previous render    *)
(* committed, none at the first render.  The render caused by               *)
(* setQueryModCount finds every dependency as this one left it.             *)
StoreRendered(bs, win) ==
    [states |-> win.states, queryModCount |-> bs.queryModCount, result |-> win.result]

StoreWindow(got, prev, p, bs) ==
    StoreRendered(bs,
                  IF prev.mounted /\ prev.window = WindowDeps(got, p)
                  THEN [states |-> bs.states, result |-> "ok"]
                  ELSE WindowEffect(bs.states, p.query, p.pageSize, p.pageBufferRadius))

StoreBackstack(got, modCount, prev, p) ==
    StoreWindow(got, prev, p,
                IF prev.mounted /\ prev.backstack = BackstackDeps(p)
                THEN [states |-> got, queryModCount |-> modCount]
                ELSE BackstackEffect(got, p.query, modCount, p.queryBackstackSize))

StoreRender(sts, modCount, prev, p) ==
    StoreBackstack(GetOrCreate(sts, p.query, modCount, p.page), modCount, prev, p)

(* An optional field of the data handed to insert: omitted, or given. *)
Omitted == <<>>
Given(v) == <<v>>

NoView == [sequential |-> FALSE, absence |-> <<>>, data |-> <<>>]
NoEvent == [op |-> "none", key |-> 0, data |-> [slices |-> Omitted, remaining |-> Omitted],
            terminal |-> NoTerminal]

(* The controller is not in use. *)
CtlIdle ==
    /\ pending = 0
    /\ view = NoView
    /\ calls = <<>>
    /\ renders = <<>>
    /\ event = NoEvent

(* The store as a state machine: a client mounts the hook, then changes    *)
(* the query, sets the page of the active query and inserts slices into    *)
(* the active buffer as the controller does on data.                       *)

EmptyStates == [k \in {} |-> NewQueryState(0, InitialPage)]

Unmounted == [mounted |-> FALSE, backstack |-> <<>>, window |-> <<>>]

(* What the last committed render left as the effects' dependencies. *)
Committed ==
    [mounted |-> TRUE, backstack |-> BackstackDeps(props),
     window |-> WindowDeps(states, props)]

Fault(result) == IF result = "ok" THEN "none" ELSE result

(* The hook mounted with the props p. *)
StoreStarts(r, p) ==
    /\ props = p
    /\ states = r.states
    /\ queryModCount = r.queryModCount
    /\ fault = Fault(r.result)
    /\ activated = {p.query}
    /\ inputs = 0
    /\ given = 0
    /\ lastInput = "mount"

StoreMounted(p) == StoreStarts(StoreRender(EmptyStates, 0, Unmounted, p), p)

DefaultProps ==
    [query |-> 1, count |-> NoTerminal, page |-> InitialPage, pageSize |-> 1,
     pageBufferRadius |-> DefaultRadius, queryBackstackSize |-> DefaultBackstack]

StoreIdle == StoreMounted(DefaultProps)

StoreInit ==
    /\ BufInit
    /\ DspInit
    /\ CtlIdle
    /\ \E pageSize \in 1..MaxPageSize,
          pageBufferRadius \in (0..MaxRadius) \cup {Infinity},
          queryBackstackSize \in (0..MaxBackstack) \cup {Infinity} :
            StoreMounted([DefaultProps EXCEPT
                            !.pageSize = pageSize,
                            !.pageBufferRadius = pageBufferRadius,
                            !.queryBackstackSize = queryBackstackSize])

(* The store after the input that left the states sts and the props p. *)
StoreCommits(r, p, input) ==
    /\ props' = p
    /\ states' = r.states
    /\ queryModCount' = r.queryModCount
    /\ fault' = Fault(r.result)
    /\ activated' = activated \cup {p.query}
    /\ inputs' = inputs + 1
    /\ given' = IF input = "insert" THEN given + 1 ELSE given
    /\ lastInput' = input

StoreSettles(sts, p, input) ==
    /\ fault = "none"
    /\ inputs < MaxInputs
    /\ StoreCommits(StoreRender(sts, queryModCount, Committed, p), p, input)

(* The query prop changes to q. *)
SetQuery(q) ==
    /\ q # props.query
    /\ StoreSettles(states, [props EXCEPT !.query = q], "setQuery")

(* state.setPage(page) of the active query. *)
SetPage(page) ==
    StoreSettles([states EXCEPT ![props.query] = SetPageOf(@, page)], props, "setPage")

(* buffer.insert(slice) and setBufferModCount(it => it + 1) on the active  *)
(* query.                                                                  *)
StoreInsert(offset, length) ==
    /\ given < MaxStoreInserts
    /\ ItemCount(states[props.query].buffer) + length <= MaxItems
    /\ StoreSettles([states EXCEPT
                        ![props.query].buffer =
                            Insert(@, <<NewSlice(given + 1, offset, length)>>),
                        ![props.query].bufferModCount = @ + 1],
                    props, "insert")

----------------------------------------------------------------------------
(* useBufferedPagination: the controller. *)

(* What a render computes once and reads many times is bound to a         *)
(* variable below, CHOOSE r \in {F(x) : x \in {e}} : TRUE being F of the    *)
(* value of e: it is evaluated once, where an operator's argument is       *)
(* evaluated each time the operator uses it.                               *)

(* calculatePaddedRange(range, direction, padding) *)
(* A padded range whose offset is not held at 0. *)
CalculatePaddedRangeUnclamped(range, direction, padding) ==
    LET paddedOffset == IF direction < 0 THEN range.offset - padding ELSE range.offset
        paddedTerminal == IF direction > 0
                          THEN RangeTerminal(range) + padding
                          ELSE RangeTerminal(range)
    IN  Range(paddedOffset, paddedTerminal - paddedOffset)

CalculatePaddedRange(range, direction, padding) ==
    LET paddedOffset == IF direction < 0
                        THEN Max(0, range.offset - padding)
                        ELSE range.offset
        paddedTerminal == IF direction > 0
                          THEN RangeTerminal(range) + padding
                          ELSE RangeTerminal(range)
    IN  Range(paddedOffset, paddedTerminal - paddedOffset)

(* const offset = state.page * pageSize *)
OffsetOf(st, p) == st.page * p.pageSize

(* const count = state.terminal ?? initialCount ?? Infinity *)
CountOf(st, p) == Coalesce(st.terminal, Coalesce(p.count, Infinity))

(* The length the subset memo asks for. *)
LengthOf(st, p) == Max(0, Min(CountOf(st, p) - OffsetOf(st, p), p.pageSize))

(* The dependencies of the subset memo and of the demand effect, as a      *)
(* render finds them.                                                      *)
MemoDeps(st, p, modCount) == <<p.pageSize, st.page, st.bufferModCount, modCount>>
DemandDeps(st, p, pendingNow, modCount) ==
    <<p.pageSize, pendingNow, st.page, st.bufferModCount, modCount>>

(* A demand that never arises. *)
DemandsNever(subset, offset, count) == FALSE

(* !subset.sequential && offset < count *)
Demands(subset, offset, count) == ~subset.sequential /\ offset < count

(* setPending(it => it - 1) left out. *)
PendingKept(pendingNow) == pendingNow

(* finally { setPending(it => it - 1) } *)
PendingDone(pendingNow) == pendingNow - 1

(* A terminal that follows a negative sum below zero. *)
TerminalUnclamped(terminalOfLastMostSlice, remaining) ==
    terminalOfLastMostSlice + remaining

(* Math.max(0, terminalOfLastMostSlice + data.remaining) *)
TerminalFrom(terminalOfLastMostSlice, remaining) ==
    Max(0, terminalOfLastMostSlice + remaining)

(* Math.max(0, ...data.slices.map(it => it.terminal)) *)
RECURSIVE TerminalOfLastMostSlice(_)
TerminalOfLastMostSlice(list) ==
    IF Len(list) = 0
    THEN 0
    ELSE Max(Terminal(Head(list)), TerminalOfLastMostSlice(Tail(list)))

(* if (data.remaining != null) state.terminal = ... on the query state st, *)
(* which the slices of the data have reached.                              *)
InsertRemaining(st, data) ==
    LET terminalOfLastMostSlice == IF data.slices # Omitted
                                   THEN TerminalOfLastMostSlice(data.slices[1])
                                   ELSE 0
    IN  IF data.remaining # Omitted
        THEN [st EXCEPT !.terminal =
                Known(TerminalFrom(terminalOfLastMostSlice, data.remaining[1]))]
        ELSE st

(* insertPaginationData(data) on the query state st. *)
InsertPaginationData(st, data) ==
    InsertRemaining(IF data.slices # Omitted
                    THEN [st EXCEPT !.buffer = Insert(@, data.slices[1]),
                                    !.bufferModCount = @ + 1]
                    ELSE st,
                    data)

(* The calls of the fetch collaborator that have not completed. *)
InFlightOf(cs) == {n \in 1..Len(cs) : cs[n].status = "flying"}

(* The indices of the ranges that the buffer buf holds. *)
Present(buf, ranges) ==
    {x \in Covered(buf) :
        \E n \in 1..Len(ranges) : ranges[n].offset <= x /\ x < RangeTerminal(ranges[n])}

(* Whether the state object born for the query key is still the one the    *)
(* store holds for it.                                                     *)
Held(sts, key, born) == key \in DOMAIN sts /\ sts[key].born = born

(* fetchRanges(ranges, direction, padding) up to its await, made by a      *)
(* render of the query key that found the given count and the state born.  With no range the  *)
(* padded range of ranges[0] cannot be computed: the call throws before    *)
(* the collaborator is reached and the finally takes pending back.         *)
FetchRanges(w, key, born, ranges, direction, padding, count, demand) ==
    LET call == [key |-> key, born |-> born, demand |-> demand, ranges |-> ranges,
                 direction |-> direction, padding |-> padding, count |-> count,
                 paddedRange |-> IF Len(ranges) = 0
                                 THEN Range(0, 0)
                                 ELSE CalculatePaddedRange(ranges[1], direction, padding),
                 present |-> IF Held(w.states, key, born)
                             THEN Present(w.states[key].buffer, ranges)
                             ELSE {},
                 flying |-> InFlightOf(w.calls),
                 status |-> "flying", order |-> 0]
    IN  IF Len(ranges) = 0
        THEN [w EXCEPT !.pending = PendingDone(w.pending + 1),
                       !.calls = Append(@, [call EXCEPT !.status = "unstarted"])]
        ELSE [w EXCEPT !.pending = @ + 1, !.calls = Append(@, call)]

(* fetchAbsent() of the render that captured c.  A state that the store    *)
(* has evicted is read with the direction it was created with: the         *)
(* specifications that evict states never turn the page.                   *)
FetchAbsent(w, c) ==
    FetchRanges(w, c.key, c.born, c.absence,
                IF Held(w.states, c.key, c.born) THEN w.states[c.key].direction ELSE 0,
                c.pageSize * c.pageBufferRadius, c.count, TRUE)

(* dispatch(() => fetchAbsent()) at the time t. *)
DispatchFetchAbsent(w, c, t) ==
    LET deltaTime == t - w.dispatchTime
        expectedDispatchCount == w.dispatchCount + 1
    IN  IF IsDelayed(deltaTime, Timeout)
        THEN [w EXCEPT !.dispatchCount = expectedDispatchCount,
                       !.timers = @ \cup
                            {[id |-> expectedDispatchCount,
                              expectedDispatchCount |-> expectedDispatchCount,
                              due |-> t + Delay(Timeout, deltaTime),
                              closure |-> c]}]
        ELSE FetchAbsent([w EXCEPT !.dispatchCount = expectedDispatchCount,
                                   !.dispatchTime = t], c)

(* The end of a render that got the view subset and whose store effects    *)
(* left store: the demand effect, and what the render commits.             *)
RenderDemand(w, p, t, got, recomputed, subset, store) ==
    LET state == got[p.query]
        offset == OffsetOf(state, p)
        count == CountOf(state, p)
        demandDeps == DemandDeps(state, p, w.pending, w.queryModCount)
        demanded == /\ ~w.committed.mounted \/ w.committed.demand # demandDeps
                    /\ Demands(subset.result, offset, count)
        committed == [mounted |-> TRUE, backstack |-> BackstackDeps(p),
                      window |-> WindowDeps(got, p),
                      memo |-> MemoDeps(state, p, w.queryModCount),
                      demand |-> demandDeps]
        closure == [key |-> p.query, born |-> state.born, absence |-> subset.result.absence,
                    count |-> count, pageSize |-> p.pageSize,
                    pageBufferRadius |-> p.pageBufferRadius]
    IN  CHOOSE r \in
            {IF demanded /\ store.result = "ok"
             THEN DispatchFetchAbsent(effected, closure, t)
             ELSE effected :
                effected \in
                    {[w EXCEPT !.states = store.states,
                               !.queryModCount = store.queryModCount,
                               !.view = subset.result,
                               !.fault = Fault(store.result),
                               !.committed = committed,
                               !.renders = Append(@,
                                    [recomputed |-> recomputed,
                                     sequential |-> subset.result.sequential,
                                     absence |-> subset.result.absence,
                                     offset |-> offset, count |-> count,
                                     dispatched |-> demanded])]}} : TRUE

(* The middle of a render that got the view subset: the two effects of the *)
(* store.  A subset that throws ends the render.                           *)
RenderStore(w, p, t, got, recomputed, subset) ==
    IF subset.result = Thrown
    THEN [w EXCEPT !.states = got, !.fault = "thrown"]
    ELSE CHOOSE r \in
            {RenderDemand(w, p, t, got, recomputed, subset, store) :
                store \in {StoreRender([got EXCEPT ![p.query].buffer = subset.slices],
                                       w.queryModCount, w.committed, p)}} : TRUE

(* The subset memo of a render that found the states got. *)
RenderMemo(w, p, t, got) ==
    LET state == got[p.query]
        recomputed == \/ ~w.committed.mounted
                      \/ w.committed.memo # MemoDeps(state, p, w.queryModCount)
    IN  CHOOSE r \in
            {RenderStore(w, p, t, got, recomputed, subset) :
                subset \in {IF recomputed
                            THEN Subset(state.buffer, OffsetOf(state, p),
                                        LengthOf(state, p))
                            ELSE [slices |-> state.buffer, result |-> w.view]}} : TRUE

(* One render of useBufferedPagination with the props p at the time t, and *)
(* the effects it commits: the subset memo, the two effects of the store,  *)
(* the demand effect.                                                      *)
RenderOnce(w, p, t) ==
    CHOOSE r \in
        {RenderMemo(w, p, t, got) :
            got \in {GetOrCreate(w.states, p.query, w.queryModCount, p.page)}} : TRUE

(* Whether the state left by the effects and the callbacks makes the hook  *)
(* render again: a dependency differs from what the last render committed. *)
RendersAgain(w, p) ==
    LET got == GetOrCreate(w.states, p.query, w.queryModCount, p.page)
        state == got[p.query]
    IN  /\ w.fault = "none"
        /\ \/ ~w.committed.mounted
           \/ w.committed.backstack # BackstackDeps(p)
           \/ w.committed.window # WindowDeps(got, p)
           \/ w.committed.memo # MemoDeps(state, p, w.queryModCount)
           \/ w.committed.demand # DemandDeps(state, p, w.pending, w.queryModCount)

(* The renders that follow an update, until one changes nothing more. *)
RECURSIVE Settle(_, _, _)
Settle(w, p, t) ==
    CHOOSE r \in
        {IF RendersAgain(left, p) THEN Settle(RenderOnce(left, p, t), p, t) ELSE left :
            left \in {w}} : TRUE

(* The controller as a state machine: the hook is mounted; the consumer    *)
(* sets the page, forces a fetch and inserts data; the collaborator        *)
(* resolves or fails a call in flight; time passes and timers fire.        *)

(* The hook as the last render and its effects left it. *)
CtlWorld ==
    [states |-> states, queryModCount |-> queryModCount, pending |-> pending,
     view |-> view, dispatchTime |-> dispatchTime, dispatchCount |-> dispatchCount,
     timers |-> timers, calls |-> calls, renders |-> <<>>, fault |-> fault,
     committed |-> [mounted |-> TRUE, backstack |-> BackstackDeps(props),
                    window |-> WindowDeps(states, props),
                    memo |-> MemoDeps(states[props.query], props, queryModCount),
                    demand |-> DemandDeps(states[props.query], props, pending,
                                          queryModCount)]]

(* The hook before its first render. *)
NewWorld ==
    [states |-> EmptyStates, queryModCount |-> 0, pending |-> 0, view |-> NoView,
     dispatchTime |-> 0, dispatchCount |-> 0, timers |-> {}, calls |-> <<>>,
     renders |-> <<>>, fault |-> "none", committed |-> Unmounted]

(* The variables hold the world w, rendered with the props p. *)
CtlHolds(w, p, ev) ==
    /\ props' = p
    /\ states' = w.states
    /\ queryModCount' = w.queryModCount
    /\ pending' = w.pending
    /\ view' = w.view
    /\ dispatchTime' = w.dispatchTime
    /\ dispatchCount' = w.dispatchCount
    /\ timers' = w.timers
    /\ calls' = w.calls
    /\ renders' = w.renders
    /\ fault' = w.fault
    /\ event' = ev
    /\ activated' = activated \cup {p.query}

(* The hook mounted with the props p. *)
CtlStarts(w, p) ==
    /\ BufInit
    /\ now = StartTime
    /\ log = <<>>
    /\ props = p
    /\ states = w.states
    /\ queryModCount = w.queryModCount
    /\ pending = w.pending
    /\ view = w.view
    /\ dispatchTime = w.dispatchTime
    /\ dispatchCount = w.dispatchCount
    /\ timers = w.timers
    /\ calls = w.calls
    /\ renders = w.renders
    /\ fault = w.fault
    /\ event = [NoEvent EXCEPT !.op = "mount", !.key = p.query]
    /\ activated = {p.query}
    /\ inputs = 0
    /\ given = 0
    /\ lastInput = "mount"

CtlMounted(p) == CtlStarts(Settle(NewWorld, p, StartTime), p)

CtlInit ==
    \E pageSize \in 1..MaxPageSize,
       count \in {NoTerminal} \cup {Known(n) : n \in 1..MaxCount} :
        CtlMounted([DefaultProps EXCEPT !.pageSize = pageSize, !.count = count])

(* The renders after the update ev that left the world w. *)
CtlSettlesWith(w, p, ev) ==
    /\ fault = "none"
    /\ \E settled \in {Settle(w, p, now)} : CtlHolds(settled, p, ev)
    /\ inputs' = IF ev.op \in {"setPage", "setPageSize", "setQuery", "fetch", "insert",
                               "refresh", "resetCurrent"}
                 THEN inputs + 1
                 ELSE inputs
    /\ given' = IF ev.op \in {"insert", "resolve"} THEN given + 1 ELSE given
    /\ UNCHANGED <<now, log, lastInput, bufVars>>

CtlSettles(w, ev) == CtlSettlesWith(w, props, ev)

(* The consumer renders the hook with the query q. *)
CtlSetQuery(q) ==
    /\ q # props.query
    /\ CtlSettlesWith(CtlWorld, [props EXCEPT !.query = q],
                      [NoEvent EXCEPT !.op = "setQuery", !.key = q])

(* state.setPage(page) of the active query. *)
CtlSetPage(page) ==
    CtlSettles([CtlWorld EXCEPT !.states[props.query] = SetPageOf(@, page)],
               [NoEvent EXCEPT !.op = "setPage", !.key = props.query])

(* setPage(page => page + step) of the active query. *)
CtlStepPage(step) == CtlSetPage(states[props.query].page + step)

(* setPageSize(size): the setter of the hook's pageSize state, which the    *)
(* model keeps in props; the same size renders nothing.                    *)
CtlSetPageSize(size) ==
    /\ size # props.pageSize
    /\ CtlSettlesWith(CtlWorld, [props EXCEPT !.pageSize = size],
                      [NoEvent EXCEPT !.op = "setPageSize", !.key = props.query])

(* fetch(ranges): fetchRanges with the default direction and padding. *)
CtlFetch(ranges) ==
    CtlSettles(FetchRanges(CtlWorld, props.query, states[props.query].born, ranges, 0, 0,
                           CountOf(states[props.query], props), FALSE),
               [NoEvent EXCEPT !.op = "fetch", !.key = props.query])

(* fetch(ranges, direction, padding) *)
CtlFetchPadded(ranges, direction, padding) ==
    CtlSettles(FetchRanges(CtlWorld, props.query, states[props.query].born, ranges,
                           direction, padding, CountOf(states[props.query], props), FALSE),
               [NoEvent EXCEPT !.op = "fetch", !.key = props.query])

(* A clear that removes nothing. *)
ClearNothing(buf) == buf

(* state.buffer.clear() *)
Clear(buf) == <<>>

(* resetCurrent() *)
CtlResetCurrent ==
    CtlSettles([CtlWorld EXCEPT !.states[props.query] =
                    [@ EXCEPT !.buffer = Clear(@),
                              !.bufferModCount = @ + 1,
                              !.terminal = NoTerminal]],
               [NoEvent EXCEPT !.op = "resetCurrent", !.key = props.query])

(* refresh() reads a name, length, that nothing in the module binds: it is *)
(* the host's global of that name (the number of frames of a browser       *)
(* window) or, on a host without one, a ReferenceError.                    *)
NoBinding == <<>>
GlobalLength == {NoBinding} \cup {<<n>> : n \in 0..MaxFrames}

(* refresh(), where the name length is bound as given.  Without a binding  *)
(* the call fails before fetchRanges is reached.                           *)
CtlRefresh(length) ==
    LET state == states[props.query]
        offset == OffsetOf(state, props)
    IN  CtlSettles(IF length = NoBinding
                   THEN CtlWorld
                   ELSE FetchRanges(CtlWorld, props.query, state.born,
                                    <<Range(offset, offset + length[1])>>,
                                    state.direction,
                                    props.pageSize * props.pageBufferRadius,
                                    CountOf(state, props), FALSE),
                   [NoEvent EXCEPT !.op = "refresh", !.key = props.query])

(* insert(data): insertPaginationData on the active query. *)
CtlInsert(data) ==
    CtlSettles([CtlWorld EXCEPT !.states[props.query] = InsertPaginationData(@, data)],
               [NoEvent EXCEPT !.op = "insert", !.key = props.query, !.data = data,
                               !.terminal = states[props.query].terminal])

(* The state of the query that is active when a call resolves. *)
InsertTargetActive(call, p, sts) == [key |-> p.query, born |-> sts[p.query].born]

(* The state insertPaginationData writes to when the call resolves: the    *)
(* state of the render that made the call, held by its closure.            *)
InsertTarget(call, p, sts) == [key |-> call.key, born |-> call.born]

(* The call id of the collaborator resolves with data: fetchRanges goes on *)
(* after its await, and inserts into the state object its render held,     *)
(* which the store may have evicted since.                                 *)
FetchResolves(id, data) ==
    /\ id \in InFlightOf(calls)
    /\ LET key == InsertTarget(calls[id], props, states).key
           held == Held(states, key, InsertTarget(calls[id], props, states).born)
           done == Cardinality({n \in 1..Len(calls) : calls[n].order > 0})
           resolved == [CtlWorld EXCEPT !.pending = PendingDone(@),
                                        !.calls[id].status = "resolved",
                                        !.calls[id].order = done + 1]
       IN  CtlSettles(IF held
                      THEN [resolved EXCEPT !.states[key] = InsertPaginationData(@, data)]
                      ELSE resolved,
                      [NoEvent EXCEPT !.op = "resolve", !.key = key, !.data = data,
                                      !.terminal = IF held
                                                   THEN states[key].terminal
                                                   ELSE NoTerminal])

(* The call id of the collaborator fails: the finally of fetchRanges. *)
FetchFails(id) ==
    /\ id \in InFlightOf(calls)
    /\ LET done == Cardinality({n \in 1..Len(calls) : calls[n].order > 0})
       IN  CtlSettles([CtlWorld EXCEPT
                            !.pending = PendingDone(@),
                            !.calls[id].status = "failed",
                            !.calls[id].order = done + 1],
                      [NoEvent EXCEPT !.op = "fail", !.key = calls[id].key])

(* A timeout passes. *)
CtlTick ==
    /\ fault = "none"
    /\ now < StartTime + MaxTicks * TickMs
    /\ now' = now + Timeout
    /\ UNCHANGED <<bufVars, dispatchTime, dispatchCount, timers, log, storeVars,
                   pending, view, calls, renders, event>>

(* The setTimeout callback of a deferred dispatch of fetchAbsent. *)
CtlTimerFires(timer) ==
    LET deltaCount == dispatchCount - timer.expectedDispatchCount
        fired == [CtlWorld EXCEPT !.timers = @ \ {timer}]
    IN  /\ timer \in timers
        /\ now >= timer.due
        /\ CtlSettles(IF TimerRuns(deltaCount)
                      THEN FetchAbsent([fired EXCEPT !.dispatchTime = now], timer.closure)
                      ELSE fired,
                      [NoEvent EXCEPT !.op = "timer", !.key = timer.closure.key])

(* The items the source holds for the range r, as the call id delivers     *)
(* them.                                                                   *)
SourceSlice(id, r) ==
    NewSlice(id, r.offset, Max(0, Min(RangeTerminal(r), SourceLen) - r.offset))

(* What a collaborator that returns exactly the padded range resolves the  *)
(* call id with.                                                           *)
ExactData(id) ==
    [slices |-> Given(<<SourceSlice(id, calls[id].paddedRange)>>), remaining |-> Omitted]

(* What a collaborator that also tells how much of the source lies beyond *)
(* the padded range resolves the call id with.                             *)
CountedData(id) ==
    [slices |-> Given(<<SourceSlice(id, calls[id].paddedRange)>>),
     remaining |-> Given(Max(0, SourceLen - RangeTerminal(calls[id].paddedRange)))]

(* Data of any shape: no slice list, or a list of up to two slices, one of *)
(* them empty; no remaining count, or one of either sign.                  *)
AnySlices(id) ==
    LET pool == {NewSlice(id, 0, 1), NewSlice(id, 2, 0)}
    IN  {Omitted, Given(<<>>)}
            \cup {Given(<<a>>) : a \in pool}
            \cup {Given(<<a, b>>) : a \in pool, b \in pool}

AnyData(id) ==
    {[slices |-> list, remaining |-> remaining] :
        list \in AnySlices(id),
        remaining \in {Omitted} \cup {Given(k) : k \in (-MaxRemaining)..MaxRemaining}}

(* The steps of a behaviour are capped by the calls of fetchRanges, the    *)
(* inputs of the consumer and the data applied.                            *)
CtlBounded(maxCalls, maxInputs, maxApplied) ==
    /\ Len(calls') <= maxCalls
    /\ inputs' <= maxInputs
    /\ given' <= maxApplied

----------------------------------------------------------------------------
(* Specifications: the buffer alone, the dispatcher alone, the store alone, *)
(* the controller with the three beneath it.                                *)

Init == BufInit /\ DspInit /\ StoreIdle /\ CtlIdle

Next ==
    \/ \E offset \in 0..MaxOffset, length \in 0..MaxItems :
            DoInsert(offset, length) /\ UNCHANGED <<dspVars, storeVars, ctlVars>>
    \/ \E offset \in 0..MaxWinOffset, length \in 0..MaxWinLen :
            DoSubset(offset, length) /\ UNCHANGED <<dspVars, storeVars, ctlVars>>
    \/ \E offset \in 0..MaxWinOffset, length \in 0..MaxWinLen :
            DoOptimize(offset, length) /\ UNCHANGED <<dspVars, storeVars, ctlVars>>
    \/ DoDeduplicate /\ UNCHANGED <<dspVars, storeVars, ctlVars>>

Spec == Init /\ [][Next]_vars

(* The constructors and the slice algebra on their own: a client builds a  *)
(* range or a slice, joins two slices, or splits one.  last holds the call *)
(* and what it returned, before the objects the call was made on.          *)
DoNewRange(offset, length) ==
    /\ last.op = "none"
    /\ last' = [op |-> "Range", offset |-> offset, length |-> length,
                before |-> <<>>, result |-> NewRange(offset, length)]
    /\ UNCHANGED <<slices, inserts, hung>>

DoNewBufferSlice(offset, length) ==
    /\ last.op = "none"
    /\ last' = [op |-> "BufferSlice", offset |-> offset, length |-> length,
                before |-> <<>>,
                result |-> NewBufferSlice(offset, NewSlice(1, offset, length).data)]
    /\ UNCHANGED <<slices, inserts, hung>>

DoTryJoin(a, b) ==
    /\ last.op = "none"
    /\ last' = [op |-> "tryJoin", offset |-> 0, length |-> 0,
                before |-> <<a, b>>, result |-> TryJoin(a, b)]
    /\ UNCHANGED <<slices, inserts, hung>>

DoTrySplit(slice, offsets) ==
    /\ last.op = "none"
    /\ last' = [op |-> "trySplit", offset |-> 0, length |-> 0,
                before |-> <<slice, offsets>>, result |-> TrySplit(slice, offsets)]
    /\ UNCHANGED <<slices, inserts, hung>>

(* The slices a client can build for the k-th argument of a call. *)
SomeSlices(k) == {NewSlice(k, offset, length) : offset \in 0..MaxOffset, length \in 0..MaxItems}

(* The offsets a client can hand to trySplit, in any order. *)
SomeOffsets == UNION {[1..n -> -1..MaxOffset + 1] : n \in 0..MaxSplits}

SliceNext ==
    \/ \E offset \in -1..MaxOffset, length \in -1..MaxItems :
            DoNewRange(offset, length) /\ UNCHANGED <<dspVars, storeVars, ctlVars>>
    \/ \E offset \in -1..MaxOffset, length \in 0..MaxItems :
            DoNewBufferSlice(offset, length) /\ UNCHANGED <<dspVars, storeVars, ctlVars>>
    \/ \E a \in SomeSlices(1), b \in SomeSlices(2) :
            DoTryJoin(a, b) /\ UNCHANGED <<dspVars, storeVars, ctlVars>>
    \/ \E slice \in SomeSlices(1), offsets \in SomeOffsets :
            DoTrySplit(slice, offsets) /\ UNCHANGED <<dspVars, storeVars, ctlVars>>

SliceSpec == Init /\ [][SliceNext]_vars

DspNext ==
    \/ Tick /\ UNCHANGED <<bufVars, storeVars, ctlVars>>
    \/ Dispatch(Timeout) /\ UNCHANGED <<bufVars, storeVars, ctlVars>>
    \/ \E timer \in timers : TimerFires(timer) /\ UNCHANGED <<bufVars, storeVars, ctlVars>>

DspSpec == Init /\ [][DspNext]_vars

(* The dispatcher with a clock that goes on while a timer waits, and with  *)
(* the host's guarantees: time passes, and a timer that is due is run.     *)
TickOn ==
    /\ \/ now < StartTime + MaxTicks * TickMs
       \/ \E timer \in timers : now < timer.due
    /\ now' = now + TickMs
    /\ UNCHANGED <<dispatchTime, dispatchCount, timers, log, bufVars, storeVars, ctlVars>>

TimerFiring == \E timer \in timers : TimerFires(timer) /\ UNCHANGED <<bufVars, storeVars, ctlVars>>

DspLiveNext ==
    \/ TickOn
    \/ Dispatch(Timeout) /\ UNCHANGED <<bufVars, storeVars, ctlVars>>
    \/ TimerFiring

DspLive ==
    /\ Init
    /\ [][DspLiveNext]_vars
    /\ WF_vars(TickOn)
    /\ WF_vars(TimerFiring)

StoreNext ==
    \/ \E q \in 1..MaxKeys : SetQuery(q) /\ UNCHANGED <<bufVars, dspVars, ctlVars>>
    \/ \E page \in 0..MaxPage : SetPage(page) /\ UNCHANGED <<bufVars, dspVars, ctlVars>>
    \/ \E page \in 0..MaxPage, length \in 1..MaxItems :
            StoreInsert(page * props.pageSize, length) /\ UNCHANGED <<bufVars, dspVars, ctlVars>>

StoreSpec == StoreInit /\ [][StoreNext]_vars

CtlCapped == CtlBounded(MaxFetches, MaxCtlInputs, MaxFetches)

CtlNext ==
    \/ \E page \in 0..MaxPage : CtlSetPage(page) /\ CtlCapped
    \/ CtlFetch(<<>>) /\ CtlCapped
    \/ \E id \in 1..Len(calls) : FetchResolves(id, ExactData(id)) /\ CtlCapped
    \/ \E id \in 1..Len(calls) : FetchFails(id) /\ CtlCapped
    \/ CtlTick
    \/ \E timer \in timers : CtlTimerFires(timer) /\ CtlCapped

CtlSpec == CtlInit /\ [][CtlNext]_vars

(* The controller given data of any shape, by insert and by the            *)
(* collaborator.                                                           *)
ApplyInit == CtlMounted(DefaultProps)

ApplyCapped == CtlBounded(MaxFetches, MaxApplies, MaxApplies)

ApplyNext ==
    \/ \E data \in AnyData(given + 1) : CtlInsert(data) /\ ApplyCapped
    \/ \E id \in 1..Len(calls) : \E data \in AnyData(given + 1) :
            FetchResolves(id, data) /\ ApplyCapped

ApplySpec == ApplyInit /\ [][ApplyNext]_vars

(* The controller with calls in flight together: the consumer sets the     *)
(* page and forces fetches of one page each, the collaborator resolves the *)
(* calls in any order with exactly the padded range.                       *)
RaceCapped == CtlBounded(MaxFetches + 1, MaxCtlInputs + 1, MaxFetches + 1)

RaceNext ==
    \/ \E page \in 0..MaxPage : CtlSetPage(page) /\ RaceCapped
    \/ \E offset \in 0..MaxOffset :
            CtlFetch(<<Range(offset, props.pageSize)>>) /\ RaceCapped
    \/ \E id \in 1..Len(calls) : FetchResolves(id, ExactData(id)) /\ RaceCapped
    \/ CtlTick
    \/ \E timer \in timers : CtlTimerFires(timer) /\ RaceCapped

RaceSpec == ApplyInit /\ [][RaceNext]_vars

(* The controller under changes of the query, for every size of the       *)
(* backstack: the consumer changes the query, the collaborator resolves    *)
(* the calls, time passes and timers fire.                                 *)
QueryInit ==
    \E queryBackstackSize \in (0..MaxBackstack) \cup {Infinity} :
        CtlMounted([DefaultProps EXCEPT !.queryBackstackSize = queryBackstackSize])

QueryNext ==
    \/ \E q \in 1..MaxKeys : CtlSetQuery(q) /\ RaceCapped
    \/ \E id \in 1..Len(calls) : FetchResolves(id, ExactData(id)) /\ RaceCapped
    \/ CtlTick
    \/ \E timer \in timers : CtlTimerFires(timer) /\ RaceCapped

QuerySpec == QueryInit /\ [][QueryNext]_vars

(* The controller left alone on a page of the source: the consumer gives   *)
(* no input, the collaborator resolves every call with exactly the padded  *)
(* range, time passes and the timers of the dispatcher fire.               *)
LiveInit ==
    \E page \in 0..MaxPage, pageSize \in 1..MaxPageSize :
        CtlMounted([DefaultProps EXCEPT !.page = page, !.pageSize = pageSize])

LiveCapped == CtlBounded(MaxFetches + 1, 0, MaxFetches + 1)

Resolution == \E id \in 1..Len(calls) : FetchResolves(id, ExactData(id)) /\ LiveCapped

Firing == \E timer \in timers : CtlTimerFires(timer) /\ LiveCapped

LiveNext ==
    \/ Resolution
    \/ CtlTick
    \/ Firing

CtlLive ==
    /\ LiveInit
    /\ [][LiveNext]_vars
    /\ WF_vars(Resolution)
    /\ WF_vars(CtlTick)
    /\ WF_vars(Firing)

(* The controller under page changes and fetches of the page's range with *)
(* a direction and a padding of the consumer's choice, while the           *)
(* collaborator holds every call unresolved.                               *)
PadNext ==
    \/ \E page \in 0..MaxPage : CtlSetPage(page) /\ CtlCapped
    \/ \E direction \in -1..1, padding \in 0..MaxPadding :
            CtlFetchPadded(<<Range(OffsetOf(states[props.query], props), props.pageSize)>>,
                           direction, padding) /\ CtlCapped
    \/ CtlTick
    \/ \E timer \in timers : CtlTimerFires(timer) /\ CtlCapped

PadSpec == LiveInit /\ [][PadNext]_vars

(* The controller under changes between two queries and resets of the     *)
(* active one, with or without an initial count and with a collaborator    *)
(* that tells the count of the source.                                     *)
ResetInit ==
    \E count \in {NoTerminal, Known(MaxCount)} :
        CtlMounted([DefaultProps EXCEPT !.count = count])

ResetCapped == CtlBounded(MaxFetches, MaxCtlInputs + 1, MaxFetches)

ResetNext ==
    \/ \E q \in {1, MaxKeys} : CtlSetQuery(q) /\ ResetCapped
    \/ CtlResetCurrent /\ ResetCapped
    \/ \E id \in 1..Len(calls) : FetchResolves(id, CountedData(id)) /\ ResetCapped
    \/ CtlTick
    \/ \E timer \in timers : CtlTimerFires(timer) /\ ResetCapped

ResetSpec == ResetInit /\ [][ResetNext]_vars

(* The controller under changes between two queries, for every size of    *)
(* the backstack, with a collaborator that tells the count of the source.  *)
SwitchNext ==
    \/ \E q \in {1, MaxKeys} : CtlSetQuery(q) /\ ResetCapped
    \/ \E id \in 1..Len(calls) : FetchResolves(id, CountedData(id)) /\ ResetCapped
    \/ CtlTick
    \/ \E timer \in timers : CtlTimerFires(timer) /\ ResetCapped

SwitchSpec == QueryInit /\ [][SwitchNext]_vars

(* The controller under navigation alone: the consumer steps the page back *)
(* and forth and changes the page size, the collaborator resolves the      *)
(* calls with exactly the padded range.                                    *)
NavCapped == CtlBounded(MaxFetches, MaxCtlInputs + 1, MaxFetches)

NavNext ==
    \/ \E step \in {-1, 1} : CtlStepPage(step) /\ NavCapped
    \/ \E size \in 1..(MaxPageSize + 1) : CtlSetPageSize(size) /\ NavCapped
    \/ \E id \in 1..Len(calls) : FetchResolves(id, ExactData(id)) /\ NavCapped
    \/ CtlTick
    \/ \E timer \in timers : CtlTimerFires(timer) /\ NavCapped

NavSpec == LiveInit /\ [][NavNext]_vars

(* The controller under page changes and refreshes of the consumer. *)
RefreshNext ==
    \/ \E page \in 0..MaxPage : CtlSetPage(page) /\ RaceCapped
    \/ \E length \in GlobalLength : CtlRefresh(length) /\ RaceCapped
    \/ \E id \in 1..Len(calls) : FetchResolves(id, ExactData(id)) /\ RaceCapped
    \/ CtlTick
    \/ \E timer \in timers : CtlTimerFires(timer) /\ RaceCapped

RefreshSpec == LiveInit /\ [][RefreshNext]_vars

----------------------------------------------------------------------------
(* Vocabulary of the buffer claims, continued. *)

AfterSubset == last.op = "subset"
AfterOptimize == last.op = "optimize" /\ last.result = "ok"
AfterDeduplicate == last.op = "deduplicate"

(* The stamp of the latest insert call whose slice covers index x: the     *)
(* call found the inserted slices in call order, each item <<k, x>> naming *)
(* its insert call k.                                                      *)
LatestCovering(x) ==
    LET ks == {last.before[n].data[1][1] :
                    n \in {m \in 1..Len(last.before) : Covers(last.before[m], x)}}
    IN  CHOOSE k \in ks : \A m \in ks : m <= k

(* C1: subset(offset, length) returns an absence list of positive-length   *)
(* ranges inside the window, sorted by offset and pairwise disjoint, whose *)
(* union is exactly the window indices no resident slice covers.           *)
C1_AbsenceExact ==
    AfterSubset =>
        /\ last.result # Thrown
        /\ LET absence == last.result.absence
           IN  /\ \A n \in 1..Len(absence) :
                        /\ absence[n].length > 0
                        /\ RangeIndices(absence[n]) \subseteq Window(last.offset, last.length)
               /\ \A n \in 1..(Len(absence) - 1) :
                        RangeTerminal(absence[n]) <= absence[n + 1].offset
               /\ UNION {RangeIndices(absence[n]) : n \in 1..Len(absence)}
                        = Window(last.offset, last.length) \ Covered(slices)

(* C2: the data of a subset has exactly length entries; entry k is the     *)
(* resident item of index offset+k, or a hole when that index is absent.   *)
C2_DataPositional ==
    (AfterSubset /\ last.result # Thrown) =>
        LET data == last.result.data
        IN  /\ Len(data) = last.length
            /\ \A k \in 0..(last.length - 1) :
                    IF last.offset + k \in Covered(slices)
                    THEN \E n \in 1..Len(slices) :
                            /\ Covers(slices[n], last.offset + k)
                            /\ data[k + 1] = slices[n].data[last.offset + k - slices[n].offset + 1]
                    ELSE data[k + 1] = Undefined

(* C3: after one deduplicate() no index is covered by two resident slices. *)
C3_NoOverlap ==
    AfterDeduplicate =>
        \A n, m \in 1..Len(slices) :
            n # m => Indices(slices[n]) \cap Indices(slices[m]) = {}

(* C4: after deduplicate() every resident item is the one supplied by the  *)
(* latest insert whose slice covers its index.                             *)
C4_NewestWins ==
    AfterDeduplicate =>
        \A n \in 1..Len(slices) : \A x \in Indices(slices[n]) :
            slices[n].data[x - slices[n].offset + 1] = <<LatestCovering(x), x>>

(* C5: after optimize(offset, length) every index a resident slice covers  *)
(* lies inside the window.                                                 *)
C5_OnlyWindowSurvives ==
    AfterOptimize => Covered(slices) \subseteq Window(last.offset, last.length)

(* C6: a second optimize with the same window leaves the resident slice    *)
(* set as the first one left it.                                           *)
C6_OptimizeIdempotent ==
    AfterOptimize =>
        LET again == Optimize(slices, last.offset, last.length)
        IN  again.result = "ok" /\ SliceSet(again.slices) = SliceSet(slices)

(* What C7 says of the backing array buf that optimize(offset, length)     *)
(* left: every slice has an index inside the window, and subset(offset,    *)
(* length) returns no item of an index outside it.                         *)
NothingFullyOutside(buf, offset, length) ==
    /\ \A n \in 1..Len(buf) : Indices(buf[n]) \cap Window(offset, length) # {}
    /\ LET r == Subset(buf, offset, length).result
       IN  r # Thrown =>
              \A k \in 1..Len(r.data) :
                  r.data[k] # Undefined => r.data[k][2] \in Window(offset, length)

(* C7: after optimize(o, l) every resident slice has an index inside the   *)
(* window, and subset(o, l) returns no item of an index outside it: for    *)
(* the optimize made on the inserted slices, and for an optimize of any    *)
(* window made next, on the array a deduplicate (alone or within subset)   *)
(* or an optimize has left.                                                *)
C7_NothingFullyOutside ==
    /\ AfterOptimize => NothingFullyOutside(slices, last.offset, last.length)
    /\ (AfterOptimize \/ AfterDeduplicate) =>
            \A offset \in 0..MaxWinOffset, length \in 0..MaxWinLen :
                LET next == Optimize(slices, offset, length)
                IN  next.result = "ok" =>
                        NothingFullyOutside(next.slices, offset, length)

(* A state where optimize dropped a slice lying outside the window and cut *)
(* one that straddled it, and a slice survives.                            *)
C7_Witness ==
    /\ AfterOptimize
    /\ Len(slices) > 0
    /\ \E n \in 1..Len(last.before) :
            Indices(last.before[n]) \cap Window(last.offset, last.length) = {}
    /\ \E n \in 1..Len(last.before) :
            /\ Indices(last.before[n]) \cap Window(last.offset, last.length) # {}
            /\ ~(Indices(last.before[n]) \subseteq Window(last.offset, last.length))

(* C8: subset(o, l) after optimize(o, l) returns what subset(o, l) returns *)
(* when called in its place.                                               *)
C8_OptimizeKeepsWindow ==
    AfterOptimize =>
        Subset(slices, last.offset, last.length).result
            = Subset(last.before, last.offset, last.length).result

----------------------------------------------------------------------------
(* Vocabulary of the dispatcher claims. *)

Executed(n) == log[n].runs > 0

(* C9: any two executions of dispatched actions are at least the timeout   *)
(* apart, and no dispatch is executed twice.                               *)
C9_ExecutionsSpaced ==
    /\ \A n \in 1..Len(log) : log[n].runs <= 1
    /\ \A n, m \in 1..Len(log) :
            (n # m /\ Executed(n) /\ Executed(m)) =>
                \/ log[n].doneAt - log[m].doneAt >= Timeout
                \/ log[m].doneAt - log[n].doneAt >= Timeout

(* An immediate execution followed, exactly one timeout later, by the      *)
(* execution of a delayed dispatch.                                        *)
C9_Witness ==
    \E n, m \in 1..Len(log) :
        /\ ~log[n].delayed /\ Executed(n)
        /\ log[m].delayed /\ Executed(m)
        /\ log[m].doneAt = log[n].doneAt + Timeout

(* C10: a dispatch made less than the timeout after the last execution t0  *)
(* is deferred to t0 + timeout and never runs earlier; of the dispatches   *)
(* deferred in one window only the last can run; a deferred dispatch runs  *)
(* when no dispatch was made after it, and is otherwise dropped and        *)
(* reported ignored with the number of dispatches made after it.           *)
C10_BurstCollapse ==
    \A n \in 1..Len(log) :
        /\ log[n].delayed <=> (log[n].at - log[n].lastRun < Timeout)
        /\ log[n].delayed => log[n].due = log[n].lastRun + Timeout
        /\ (log[n].delayed /\ log[n].outcome # "pending") =>
                /\ log[n].doneAt >= log[n].due
                /\ (log[n].after = 0) <=> (log[n].outcome = "executed")
                /\ (log[n].outcome = "ignored") =>
                        (log[n].runs = 0 /\ log[n].deltaCount = log[n].after)
        /\ \A m \in (n + 1)..Len(log) :
                (log[n].delayed /\ log[m].delayed /\ log[n].lastRun = log[m].lastRun) =>
                    (log[n].runs = 0 /\ log[n].outcome \in {"pending", "ignored"})

(* The burst of the specification: a dispatch runs at once at t0, the      *)
(* dispatches at t0+200 and t0+500 are deferred, and at t0+1000 the first  *)
(* is ignored with delta 1 and the second runs.                            *)
C10_Witness ==
    /\ Len(log) = 3
    /\ ~log[1].delayed /\ Executed(1)
    /\ log[2].at = log[1].at + 200 /\ log[2].delayed
    /\ log[3].at = log[1].at + 500 /\ log[3].delayed
    /\ log[2].outcome = "ignored" /\ log[2].deltaCount = 1
    /\ log[2].doneAt = log[1].at + Timeout
    /\ log[3].outcome = "executed" /\ log[3].doneAt = log[1].at + Timeout

----------------------------------------------------------------------------
(* Vocabulary of the store claims. *)

Active == states[props.query]
FiniteBackstack == props.queryBackstackSize # Infinity
FiniteRadius == props.pageBufferRadius # Infinity

(* C11: with a finite backstack size B, a change of the active key         *)
(* advances the generation by one, stamps it on the new active key, and    *)
(* evicts exactly the non-active states whose stamp lags the new           *)
(* generation by more than B; the states that stay are left as they were.  *)
C11_BackstackEviction ==
    [][(props'.query # props.query /\ FiniteBackstack) =>
            /\ queryModCount' = queryModCount + 1
            /\ props'.query \in DOMAIN states'
            /\ states'[props'.query].sinceQueryModCount = queryModCount'
            /\ DOMAIN states' \ {props'.query} =
                    {k \in DOMAIN states \ {props'.query} :
                        queryModCount' - states[k].sinceQueryModCount
                            <= props.queryBackstackSize}
            /\ \A k \in DOMAIN states' \ {props'.query} : states'[k] = states[k]
      ]_vars

(* Backstack 1, keys 1, 2, 3 activated in this order: key 1 is evicted     *)
(* when key 3 becomes active, key 2 is still there.                        *)
C11_Witness ==
    /\ props.queryBackstackSize = 1
    /\ props.query = 3
    /\ activated = {1, 2, 3}
    /\ DOMAIN states = {2, 3}
    /\ states[2].sinceQueryModCount = 2
    /\ states[3].sinceQueryModCount = 3

(* C12: with an unbounded backstack every key rendered so far has a state  *)
(* in the store, and no step drops or changes the state of a key other     *)
(* than the active one.                                                    *)
C12_UnboundedKeepsAll ==
    /\ [](~FiniteBackstack => activated \subseteq DOMAIN states)
    /\ [][~FiniteBackstack =>
            \A k \in DOMAIN states \ {props'.query} :
                k \in DOMAIN states' /\ states'[k] = states[k]]_vars

(* Unbounded backstack, three keys activated, all three in the store, one  *)
(* of the inactive ones with the page it was given.                        *)
C12_Witness ==
    /\ ~FiniteBackstack
    /\ activated = {1, 2, 3}
    /\ DOMAIN states = {1, 2, 3}
    /\ \E k \in DOMAIN states : k # props.query /\ states[k].page # InitialPage

(* C13: with a finite radius, once the render after a change of the active *)
(* page has settled, the active buffer holds no item outside the window of *)
(* the new page.                                                           *)
C13_WindowFollowsPage ==
    (lastInput = "setPage" /\ FiniteRadius /\ fault = "none") =>
        LET w == WindowOf(Active, props.pageSize, props.pageBufferRadius)
        IN  Covered(Active.buffer) \subseteq Window(w.offset, w.length)

----------------------------------------------------------------------------
(* Claims about the controller. *)

(* The dispatcher holds the fetch of the absence of the render r: as a     *)
(* deferred job, or already run as a call with the direction of the query. *)
Handed(r) ==
    \/ \E timer \in timers :
            /\ timer.closure.key = props.query
            /\ timer.closure.absence = r.absence
    \/ \E n \in 1..Len(calls) :
            /\ calls[n].demand
            /\ calls[n].key = props.query
            /\ calls[n].ranges = r.absence
            /\ calls[n].direction = Active.direction

(* C14: a render that recomputes the view and finds it not sequential with *)
(* offset < count hands a fetch of the view's absence, with the direction  *)
(* of the query, to the dispatcher; a render whose view is sequential or   *)
(* whose offset is not below the count dispatches nothing.                 *)
C14_DemandDispatch ==
    fault = "none" =>
        \A n \in 1..Len(renders) :
            LET r == renders[n]
            IN  /\ (r.recomputed /\ ~r.sequential /\ r.offset < r.count) =>
                        r.dispatched /\ Handed(r)
                /\ (r.sequential \/ r.offset >= r.count) => ~r.dispatched

C14_Witness ==
    /\ event.op = "setPage"
    /\ fault = "none"
    /\ \E n \in 1..Len(renders) :
            /\ renders[n].recomputed /\ ~renders[n].sequential
            /\ renders[n].offset < renders[n].count
            /\ renders[n].dispatched
            /\ renders[n].absence # <<>>

(* C15: every call of the collaborator made by the demand path, that is by *)
(* fetchAbsent run by the dispatcher at once or deferred, passes ranges of *)
(* which the buffer of the query holds no index when the call is made.     *)
C15_FetchesOnlyAbsent ==
    \A n \in 1..Len(calls) :
        (calls[n].demand /\ calls[n].status # "unstarted") => calls[n].present = {}

(* The largest terminal of the slices of the list, 0 if there is none. *)
LastTerminal(list) ==
    LET terminals == {Terminal(list[n]) : n \in 1..Len(list)} \cup {0}
    IN  CHOOSE t \in terminals : \A u \in terminals : u <= t

(* C16: after a fetch result or an insert is applied, the terminal of the  *)
(* query is max(0, largest terminal of the supplied slices + remaining) if *)
(* a remaining count came with the data, also a negative one, and what it  *)
(* was before if none came; a known terminal is never negative.            *)
C16_TerminalFromRemaining ==
    /\ \A q \in DOMAIN states :
            states[q].terminal # NoTerminal => states[q].terminal[1] >= 0
    /\ event.op \in {"resolve", "insert"} =>
            LET supplied == IF event.data.slices = Omitted THEN <<>>
                            ELSE event.data.slices[1]
            IN  IF event.data.remaining = Omitted
                THEN states[event.key].terminal = event.terminal
                ELSE states[event.key].terminal =
                        Known(Max(0, LastTerminal(supplied) + event.data.remaining[1]))

C16_Witness ==
    /\ event.op = "resolve"
    /\ event.data.remaining = Given(-1)
    /\ event.data.slices # Omitted
    /\ event.terminal # NoTerminal
    /\ states[event.key].terminal = Known(1)
    /\ event.terminal # Known(1)

(* C17: loading, pending > 0, holds exactly when a call of the             *)
(* collaborator is in flight; pending is never negative and counts the     *)
(* calls in flight, so a call that resolved, failed or could not be        *)
(* started has given back what it took.                                    *)
C17_LoadingIsInFlight ==
    /\ pending >= 0
    /\ pending = Cardinality(InFlightOf(calls))
    /\ (pending > 0) <=> (InFlightOf(calls) # {})

C17_Witness ==
    /\ pending = 0
    /\ \E n \in 1..Len(calls) : calls[n].status = "unstarted"
    /\ \E n \in 1..Len(calls) : calls[n].status \in {"resolved", "failed"}

(* C18: the step in which a call of the collaborator fails neither hands a *)
(* fetch to the dispatcher nor calls the collaborator.                     *)
C18_NoRetry ==
    [][(event'.op = "fail" /\ event' # event) =>
            /\ dispatchCount' = dispatchCount
            /\ Len(calls') = Len(calls)]_vars

(* The first call of the collaborator has not completed. *)
FirstFetchUnresolved == Len(calls) >= 1 /\ calls[1].status = "flying"

(* The view is sequential and its data are the items of the source at the  *)
(* indices of the page, in order.                                          *)
PageServed ==
    /\ view.sequential
    /\ [n \in 1..Len(view.data) |-> view.data[n][2]] =
            [n \in 1..props.pageSize |-> OffsetOf(Active, props) + n - 1]

(* C19: left alone on a page of the source with a collaborator that always *)
(* resolves with exactly the padded range, the hook shows loading and a    *)
(* view that is not sequential as long as the first call is unresolved,    *)
(* and in the end a sequential view of the source items of the page.       *)
C19_EndToEnd ==
    /\ [](FirstFetchUnresolved => (pending > 0 /\ ~view.sequential))
    /\ <>[]PageServed

(* The calls a and b were in flight together and a completed first. *)
Overtaken(a, b) ==
    /\ a # b
    /\ calls[a].key = calls[b].key
    /\ calls[a].status = "resolved" /\ calls[b].status = "resolved"
    /\ calls[a].order < calls[b].order
    /\ a \in calls[b].flying \/ b \in calls[a].flying

(* The indices both results cover. *)
Common(a, b) ==
    {x \in 0..(SourceLen - 1) :
        /\ calls[a].paddedRange.offset <= x /\ x < RangeTerminal(calls[a].paddedRange)
        /\ calls[b].paddedRange.offset <= x /\ x < RangeTerminal(calls[b].paddedRange)}

(* The call whose item a view of index x shows, 0 if the buffer cannot     *)
(* show the index.                                                         *)
ShownAt(buf, x) ==
    LET r == Subset(buf, x, 1).result
    IN  IF r = Thrown THEN 0
        ELSE IF r.sequential /\ Len(r.data) = 1 THEN r.data[1][1]
        ELSE 0

(* C20: of two calls in flight together whose results cover a common       *)
(* index, the buffer shows at that index, once both have completed, no     *)
(* item of the call that completed first.                                  *)
C20_LastCompletedWins ==
    \A a \in 1..Len(calls), b \in 1..Len(calls) :
        Overtaken(a, b) =>
            \A x \in Common(a, b) : ShownAt(states[calls[a].key].buffer, x) # a

(* C21: after a change of the query has settled, the view is the subset of *)
(* the buffer of the new active query at the page's offset and clamped     *)
(* length, whatever the size of the backstack.                             *)
C21_ViewOfActiveQuery ==
    (event.op = "setQuery" /\ fault = "none") =>
        view = Subset(Active.buffer, OffsetOf(Active, props), LengthOf(Active, props)).result

(* C22: refresh() calls the collaborator with exactly one range, the       *)
(* current page's [offset, offset + pageSize), the direction of the active *)
(* query and the padded range of the padding pageSize * pageBufferRadius.  *)
C22_RefreshFetchesPage ==
    [][(event'.op = "refresh" /\ inputs' = inputs + 1) =>
        LET state == states[props.query]
            range == Range(OffsetOf(state, props), props.pageSize)
        IN  /\ Len(calls') > Len(calls)
            /\ calls'[Len(calls) + 1].ranges = <<range>>
            /\ calls'[Len(calls) + 1].direction = state.direction
            /\ calls'[Len(calls) + 1].paddedRange =
                    CalculatePaddedRange(range, state.direction,
                                         props.pageSize * props.pageBufferRadius)]_vars

(* C23: the offset of the buffer is the smallest offset of its slices and  *)
(* its terminal their largest terminal, and both are 0 for a buffer with   *)
(* no slice.                                                               *)
C23_OffsetAndTerminal ==
    IF slices = <<>>
    THEN BufferOffset(slices) = 0 /\ BufferTerminal(slices) = 0
    ELSE /\ \E n \in 1..Len(slices) : BufferOffset(slices) = slices[n].offset
         /\ \A n \in 1..Len(slices) : BufferOffset(slices) <= slices[n].offset
         /\ \E n \in 1..Len(slices) : BufferTerminal(slices) = Terminal(slices[n])
         /\ \A n \in 1..Len(slices) : BufferTerminal(slices) >= Terminal(slices[n])

(* C24: a Range with a negative offset or length and a slice with a        *)
(* negative offset cannot be built; a built one has offset >= 0, length    *)
(* >= 0 and terminal = offset + length >= offset.                          *)
C24_ConstructionChecked ==
    /\ last.op = "Range" =>
            IF last.offset < 0 \/ last.length < 0
            THEN last.result = Thrown
            ELSE /\ last.result # Thrown
                 /\ last.result.offset = last.offset /\ last.result.offset >= 0
                 /\ last.result.length = last.length /\ last.result.length >= 0
                 /\ RangeTerminal(last.result) = last.offset + last.length
                 /\ RangeTerminal(last.result) >= last.result.offset
    /\ last.op = "BufferSlice" =>
            IF last.offset < 0
            THEN last.result = Thrown
            ELSE /\ last.result # Thrown
                 /\ last.result.offset = last.offset /\ last.result.offset >= 0
                 /\ Length(last.result) = last.length /\ Length(last.result) >= 0
                 /\ Terminal(last.result) = last.offset + last.length
                 /\ Terminal(last.result) >= last.result.offset

C24_Witness ==
    /\ last.op = "Range"
    /\ last.offset >= 0
    /\ last.length < 0
    /\ last.result = Thrown

(* The value the slice s holds for the index x. *)
ItemAt(s, x) == s.data[x - s.offset + 1]

Apart(a, b) == Terminal(a) < b.offset \/ Terminal(b) < a.offset

(* C25: a.join(b) is none exactly when b.join(a) is, which is exactly when *)
(* the two neither overlap nor touch; otherwise both cover the indices     *)
(* from the smaller offset to the larger terminal, and a.join(b) holds the *)
(* value of a wherever a covers and the value of b elsewhere.              *)
C25_JoinCoverageAndPrecedence ==
    last.op = "tryJoin" =>
        LET a == last.before[1]
            b == last.before[2]
            ab == last.result
            ba == TryJoin(b, a)
        IN  /\ (ab = Null) = (ba = Null)
            /\ (ab = Null) = Apart(a, b)
            /\ ab # Null =>
                    /\ ab.offset = Min(a.offset, b.offset)
                    /\ Terminal(ab) = Max(Terminal(a), Terminal(b))
                    /\ ba.offset = ab.offset
                    /\ Terminal(ba) = Terminal(ab)
                    /\ \A x \in Indices(ab) :
                            ItemAt(ab, x) = IF x \in Indices(a) THEN ItemAt(a, x)
                                                              ELSE ItemAt(b, x)

(* Two slices that only touch are joined, and two overlapping ones keep    *)
(* the value of the receiver.                                              *)
C25_Witness ==
    /\ last.op = "tryJoin"
    /\ Terminal(last.before[1]) = last.before[2].offset
    /\ Length(last.before[1]) > 0
    /\ Length(last.before[2]) > 0
    /\ last.result # Null

Ascending(offsets) ==
    /\ \A n \in 1..Len(offsets) : offsets[n] >= 0
    /\ \A n \in 1..(Len(offsets) - 1) : offsets[n] <= offsets[n + 1]

(* The bounds of the n-th part of a split at offsets. *)
PartFrom(offsets, n) == IF n = 1 THEN 0 ELSE offsets[n - 1]
PartUpTo(offsets, n) == IF n = Len(offsets) + 1 THEN Infinity ELSE offsets[n]

(* C26: a split at non-negative ascending offsets returns one part more    *)
(* than offsets; part n is the slice bounded to its span, none when the    *)
(* span holds no item of the slice, and the parts that are not none hold   *)
(* together every item of the slice, each once.                            *)
C26_SplitParts ==
    (last.op = "trySplit" /\ Ascending(last.before[2])) =>
        LET slice == last.before[1]
            offsets == last.before[2]
            parts == last.result
        IN  /\ Len(parts) = Len(offsets) + 1
            /\ \A n \in 1..Len(parts) :
                    LET span == {x \in Indices(slice) :
                                    PartFrom(offsets, n) <= x /\ x < PartUpTo(offsets, n)}
                    IN  IF span = {}
                        THEN parts[n] = Null
                        ELSE /\ parts[n] # Null
                             /\ parts[n] # Thrown
                             /\ Indices(parts[n]) = span
                             /\ \A x \in span : ItemAt(parts[n], x) = ItemAt(slice, x)

(* C27: the padded range of a call is the range stretched by the padding   *)
(* behind it and held at 0 when the direction is negative, ahead of it     *)
(* when the direction is positive, and the range itself for the direction  *)
(* 0; it contains the range, its offset is never negative, and a call that *)
(* the demand of the view made pads its first absent range by pageSize *   *)
(* pageBufferRadius.                                                       *)
C27_PaddedRange ==
    \A id \in 1..Len(calls) :
        Len(calls[id].ranges) > 0 =>
            LET call == calls[id]
                range == call.ranges[1]
                padded == call.paddedRange
            IN  /\ call.direction < 0 =>
                        /\ padded.offset = Max(0, range.offset - call.padding)
                        /\ RangeTerminal(padded) = RangeTerminal(range)
                /\ call.direction > 0 =>
                        /\ padded.offset = range.offset
                        /\ RangeTerminal(padded) = RangeTerminal(range) + call.padding
                /\ call.direction = 0 => padded = range
                /\ padded.offset <= range.offset
                /\ RangeTerminal(range) <= RangeTerminal(padded)
                /\ padded.offset >= 0
                /\ call.demand => call.padding = props.pageSize * props.pageBufferRadius

(* A call of the demand behind the page, whose padding reaches below 0. *)
C27_Witness ==
    \E id \in 1..Len(calls) :
        /\ calls[id].demand
        /\ calls[id].direction < 0
        /\ calls[id].padding > 0
        /\ calls[id].ranges[1].offset < calls[id].padding

(* C28: resetCurrent() leaves the buffer of the active query empty and its *)
(* terminal unknown, so that the view of a page that is not empty is all   *)
(* absent and the count is the initial count or unbounded; the page, the   *)
(* page size and the states of the other queries are as before.            *)
C28_ResetCurrent ==
    [][(event'.op = "resetCurrent" /\ inputs' = inputs + 1) =>
        /\ states'[props.query].buffer = <<>>
        /\ states'[props.query].terminal = NoTerminal
        /\ CountOf(states'[props.query], props') = Coalesce(props.count, Infinity)
        /\ LengthOf(states'[props.query], props') > 0 =>
                /\ ~view'.sequential
                /\ view'.absence = <<Range(OffsetOf(Active, props),
                                           LengthOf(states'[props.query], props'))>>
                /\ \A n \in 1..Len(view'.data) : view'.data[n] = Undefined
        /\ states'[props.query].page = Active.page
        /\ props' = props
        /\ DOMAIN states' = DOMAIN states
        /\ \A q \in DOMAIN states \ {props.query} : states'[q] = states[q]]_vars

(* The call has emptied a buffer that held the page and forgotten a known  *)
(* terminal, next to another query that holds items.                       *)
C28_Witness ==
    /\ event.op = "resetCurrent"
    /\ Active.bufferModCount > 1
    /\ Active.terminal = NoTerminal
    /\ \E n \in 1..Len(calls) :
            /\ calls[n].key = props.query
            /\ calls[n].status = "resolved"
    /\ \E q \in DOMAIN states \ {props.query} : states[q].buffer # <<>>

(* C29: every index a resident slice covered before deduplicate() is       *)
(* covered by a resident slice after it.                                   *)
C29_DeduplicateKeepsCoverage ==
    AfterDeduplicate => Covered(last.before) \subseteq Covered(slices)

(* C30: subset(offset, length) and optimize(offset, length) with offset    *)
(* and length not negative return, and raise no error, whatever was        *)
(* inserted before.                                                        *)
C30_CallsComplete ==
    /\ AfterSubset => last.result # Thrown
    /\ last.op = "optimize" => last.result = "ok"

(* The step is the resolution of the call id. *)
Resolving(id) ==
    /\ id \in 1..Len(calls)
    /\ calls[id].status = "flying"
    /\ calls'[id].status = "resolved"

(* C31: the result of a call goes to the state of the query whose render   *)
(* made the call, in flight or deferred at a change of the query: the      *)
(* resolution changes the buffer version and the terminal of that state as *)
(* insertPaginationData does, and leaves the state of every other query,   *)
(* the active one included, as it was.                                     *)
C31_ResultLandsInItsQuery ==
    [][\A id \in 1..Len(calls) :
        Resolving(id) =>
            LET key == calls[id].key
                mine == Held(states, key, calls[id].born)
            IN  /\ \A q \in DOMAIN states :
                        (q # key \/ ~mine) => (q \in DOMAIN states' /\ states'[q] = states[q])
                /\ mine =>
                        /\ states'[key].bufferModCount =
                                InsertPaginationData(states[key], event'.data).bufferModCount
                        /\ states'[key].terminal =
                                InsertPaginationData(states[key], event'.data).terminal]_vars

(* A result has landed in a query that is no longer the active one, whose  *)
(* buffer is empty and whose terminal is unknown.                          *)
C31_Witness ==
    /\ event.op = "resolve"
    /\ event.key # props.query
    /\ event.key \in DOMAIN states
    /\ states[event.key].buffer # <<>>
    /\ states[event.key].terminal # NoTerminal
    /\ Active.buffer = <<>>
    /\ Active.terminal = NoTerminal

(* C32: with a finite backstack size B the store holds at most B + 1       *)
(* states and the state of the active query is one of them; a key that is  *)
(* activated again after its eviction gets a new state: the initial page,  *)
(* an empty buffer, no terminal, direction 0.                              *)
C32_BackstackBound ==
    /\ [](FiniteBackstack =>
            /\ Cardinality(DOMAIN states) <= props.queryBackstackSize + 1
            /\ props.query \in DOMAIN states)
    /\ [][(/\ FiniteBackstack
           /\ props'.query # props.query
           /\ props'.query \in activated
           /\ props'.query \notin DOMAIN states) =>
                /\ states'[props'.query].page = props'.page
                /\ states'[props'.query].buffer = <<>>
                /\ states'[props'.query].bufferModCount = 0
                /\ states'[props'.query].terminal = NoTerminal
                /\ states'[props'.query].direction = 0]_vars

(* Backstack 0, key 1 left for key 2 and activated again: the store holds  *)
(* the new state of key 1 alone.                                           *)
C32_Witness ==
    /\ props.queryBackstackSize = 0
    /\ activated = {1, 2}
    /\ props.query = 1
    /\ queryModCount = 3
    /\ inputs = 3
    /\ DOMAIN states = {1}
    /\ Active.page = InitialPage
    /\ Active.buffer = <<>>

(* C33: once no further dispatch is made, the dispatch made last is        *)
(* executed; no dispatch is executed twice; every deferred dispatch ends   *)
(* either executed or ignored, and stays so.                               *)
C33_LastDispatchRuns ==
    /\ <>[](log = <<>> \/ log[Len(log)].outcome = "executed")
    /\ [](\A n \in 1..Len(log) : log[n].runs <= 1)
    /\ \A n \in 1..MaxDispatches :
            (n <= Len(log) /\ log[n].delayed) ~>
                (n <= Len(log) /\ log[n].outcome \in {"executed", "ignored"})
    /\ [](\A n \in 1..Len(log) :
            /\ log[n].outcome = "executed" => log[n].runs = 1
            /\ log[n].outcome = "ignored" => log[n].runs = 0)
    /\ [][\A n \in 1..Len(log) :
            log[n].outcome # "pending" => log'[n].outcome = log[n].outcome]_vars

(* Every dispatch was deferred or run, no timer waits: the deferred        *)
(* dispatch made last was executed and one before it was ignored.          *)
C33_Witness ==
    /\ timers = {}
    /\ Len(log) = MaxDispatches
    /\ log[Len(log)].delayed
    /\ log[Len(log)].outcome = "executed"
    /\ \E n \in 1..(Len(log) - 1) : log[n].delayed /\ log[n].outcome = "ignored"

(* C34: under setPage and setPageSize, a decrement of the page at page 0   *)
(* included, no render throws, and the offset and the length that the next *)
(* render gives to subset and to optimize are not negative.                *)
C34_NavigationInRange ==
    /\ fault # "thrown"
    /\ OffsetOf(Active, props) >= 0
    /\ LengthOf(Active, props) >= 0
    /\ FiniteRadius =>
            /\ WindowOf(Active, props.pageSize, props.pageBufferRadius).offset >= 0
            /\ WindowOf(Active, props.pageSize, props.pageBufferRadius).length >= 0

====
